---- MODULE Spec2Model ----
(***************************************************************************)
(* Model of the consultancy-document pipeline of src/main.py with the      *)
(* pydantic schema of src/models.py: agent provisioning, per-file          *)
(* extraction, normalisation, record construction and the export table.    *)
(*                                                                         *)
(* Strings are sequences of chunks.  A chunk is either one separator       *)
(* character (" ", "\t", ".", "/") or a run of text that neither begins    *)
(* nor ends with whitespace; "" is the empty sequence.                     *)
(***************************************************************************)
EXTENDS Integers, Sequences, FiniteSets, TLC

VARIABLES
    files,          \* main.py:172  docx_files, the paths glob returned
    remoteAgents,   \* the agents held by the remote service, in listing order
    answers,        \* which results agent.extract can return in this run
    pc,             \* position of the run of main()
    i,              \* main.py:181  index of the file being processed
    agent,          \* main.py:72   the agent handle of the current file
    calls,          \* remote calls issued for the current file, in order
    createCount,    \* create_agent calls of the whole run
    last,           \* the latest call of extract_company_info_llama
    results,        \* main.py:178  the result collection
    table,          \* main.py:235  the DataFrame save_to_excel built
    writes,         \* number of to_excel writes that were started
    saved,          \* the output file holds the table
    listFailed,     \* some list_agents call of the run raised
    listCount,      \* list_agents calls of the whole run
    used,           \* ids of the agents setup_extraction_agent returned
    crash,          \* where an uncaught exception left main(), "" if none
    cin,            \* clean_extracted_data: the mapping handed to the call
    cfallback,      \* clean_extracted_data: fallback_company_name
    cout,           \* clean_extracted_data: outcome of the call
    cbuilt,         \* CompanyInfo(**cleaned) of the returned mapping
    cagain,         \* clean_extracted_data: outcome of a call on cout.cleaned
    cstage          \* position of the stand-alone normalisation run

vars == <<files, remoteAgents, answers, pc, i, agent, calls, createCount,
          last, results, table, writes, saved, listFailed, listCount,
          used, crash,
          cin, cfallback, cout, cbuilt, cagain, cstage>>

runVars == <<files, remoteAgents, answers, pc, i, agent, calls, createCount,
             last, results, table, writes, saved, listFailed, listCount,
          used, crash>>

cleanVars == <<cin, cfallback, cout, cbuilt, cagain, cstage>>

\* Bound on the number of input files of one run.
MaxFiles == 2

-----------------------------------------------------------------------------
(* Strings                                                                 *)

Whitespace == {" ", "\t"}

NA == <<"n/a">>

RECURSIVE lstrip(_)
lstrip(s) ==
    IF s = <<>> THEN <<>>
    ELSE IF Head(s) \in Whitespace THEN lstrip(Tail(s)) ELSE s

RECURSIVE rstrip(_)
rstrip(s) ==
    IF s = <<>> THEN <<>>
    ELSE IF s[Len(s)] \in Whitespace THEN rstrip(SubSeq(s, 1, Len(s) - 1))
         ELSE s

\* str.strip()
strip(s) == rstrip(lstrip(s))

\* str.rfind(c): the last index of chunk c, 0 when there is none
rfind(s, c) ==
    LET hits == {j \in 1..Len(s) : s[j] = c}
    IN  IF hits = {} THEN 0 ELSE CHOOSE j \in hits : \A h \in hits : h <= j

\* os.path.basename
basename(p) == SubSeq(p, rfind(p, "/") + 1, Len(p))

\* os.path.splitext(name)[0]: the extension starts at the last dot unless
\* only dots precede it
splitext_root(name) ==
    LET d == rfind(name, ".")
    IN  IF d > 0 /\ \E j \in 1..(d - 1) : name[j] # "."
        THEN SubSeq(name, 1, d - 1)
        ELSE name

\* main.py:64-65
fallback_name(file_path) == splitext_root(basename(file_path))

RECURSIVE join(_, _)
\* sep.join(parts)
join(sep, parts) ==
    IF parts = <<>> THEN <<>>
    ELSE IF Len(parts) = 1 THEN parts[1]
    ELSE parts[1] \o sep \o join(sep, Tail(parts))

Digits == <<"0", "1", "2", "3", "4", "5", "6", "7", "8", "9">>

RECURSIVE NatToStr(_)
NatToStr(n) ==
    IF n < 10 THEN Digits[n + 1]
    ELSE NatToStr(n \div 10) \o Digits[(n % 10) + 1]

\* str(n) for an int, one chunk
IntToStr(n) == IF n < 0 THEN <<"-" \o NatToStr(0 - n)>> ELSE <<NatToStr(n)>>

-----------------------------------------------------------------------------
(* Python values of the loosely typed mapping.  An inner value is what a   *)
(* nested mapping holds under its one key; an outer value is what the      *)
(* top-level mapping holds under a key.  k = "absent" is a missing key.    *)

IV(k, s, n, l) == [k |-> k, s |-> s, n |-> n, l |-> l]
IAbsent  == IV("absent", <<>>, 0, <<>>)
INone    == IV("none", <<>>, 0, <<>>)
IStr(s)  == IV("str", s, 0, <<>>)
IInt(n)  == IV("int", <<>>, n, <<>>)
IList(l) == IV("list", <<>>, 0, l)

OV(k, s, n, l, d) == [k |-> k, s |-> s, n |-> n, l |-> l, d |-> d]
OAbsent  == OV("absent", <<>>, 0, <<>>, IAbsent)
ONone    == OV("none", <<>>, 0, <<>>, IAbsent)
OStr(s)  == OV("str", s, 0, <<>>, IAbsent)
OInt(n)  == OV("int", <<>>, n, <<>>, IAbsent)
OList(l) == OV("list", <<>>, 0, l, IAbsent)
ODict(d) == OV("dict", <<>>, 0, <<>>, d)

\* bool(v)
Truthy(v) ==
    CASE v.k = "str"  -> v.s # <<>>
      [] v.k = "int"  -> v.n # 0
      [] v.k = "list" -> v.l # <<>>
      [] v.k = "dict" -> v.d.k # "absent"
      [] OTHER        -> FALSE

\* str(v) for a value that is neither a str nor a list
pystr(v) == IF v.k = "int" THEN IntToStr(v.n) ELSE <<"None">>

Keys == {"company_name", "country", "consultation_date", "experts",
         "consultation_type", "domain_info", "ai_field_info",
         "intended_solution", "ai_maturity_level", "technical_expertise",
         "company_type", "target_market", "data_requirements",
         "fair_services_sought", "recommendations"}

-----------------------------------------------------------------------------
(* Enumerations of models.py: symbolic member name and display value       *)

Member(name, value) == [name |-> name, value |-> <<value>>]

\* models.py:7-9
ConsultationType ==
    {
       Member("REGULAR", "Regular"),
       Member("POP_UP", "Pop-up") }

\* models.py:11-14
MaturityLevel ==
    {
       Member("LOW", "Low"),
       Member("MODERATE", "Moderate"),
       Member("HIGH", "High") }

\* models.py:16-18
CompanyType ==
    {
       Member("STARTUP", "Startup"),
       Member("ESTABLISHED", "Established company") }

\* models.py:22-40
Domain ==
    {
       Member("HEALTHCARE", "Healthcare & wellbeing"),
       Member("AUTOMOTIVE", "Automotive"),
       Member("CONSTRUCTION", "Construction"),
       Member("MANUFACTURING", "Manufacturing"),
       Member("CULTURAL", "Cultural & creative industries"),
       Member("DEFENSE", "Defense"),
       Member("EDUCATION", "Education & training"),
       Member("ENVIRONMENT", "Environment & sustainability"),
       Member("FINANCE", "Finance"),
       Member("LEGAL", "Legal"),
       Member("SECURITY", "Security"),
       Member("SMART_CITIES", "Smart cities"),
       Member("TRANSPORT", "Transport, mobility, logistics"),
       Member("TRAVEL", "Travel & tourism"),
       Member("BUSINESS", "Business development/business services"),
       Member("REAL_ESTATE", "Real estate & property"),
       Member("ARTS", "Arts & entertainment"),
       Member("OTHER", "Other") }

\* models.py:70-76
AIField ==
    {
       Member("GENERATIVE_AI", "Generative AI"),
       Member("MACHINE_LEARNING", "Machine learning"),
       Member("PREDICTIVE_ANALYTICS", "Predictive analytics"),
       Member("COMPUTER_VISION", "Computer vision & image processing"),
       Member("RULE_BASED", "Rule-based systems"),
       Member("OTHER", "Other") }

\* models.py:91-102
Services ==
    {
       Member("TECHNICAL_ADVICE", "Technical advice"),
       Member("PoC_DEV", "PoC development"),
       Member("DATA_ANALYSIS", "Data analysis"),
       Member("AI_ROADMAP", "AI roadmap design"),
       Member("FUNDING_SUPPORT", "Funding application support"),
       Member("THESIS_SUPPORT", "Student thesis project"),
       Member("COLLABORATION", "Networking support"),
       Member("RnD_SUPPORT", "R&D collaboration"),
       Member("DATA_COLLECTION", "Data collection"),
       Member("USE_CASE_DESIGN", "Use case design"),
       Member("TECHNICAL_REVIEW", "Technical review") }

\* models.py:144-251
TargetGroup ==
    {
       Member("HEALTHCARE_PROFESSIONALS", "Healthcare professionals"),
       Member("PATIENTS_CONSUMERS", "Patients and healthcare consumers"),
       Member("MEDICAL_RESEARCHERS", "Medical researchers"),
       Member("PHARMACEUTICAL", "Pharmaceutical companies"),
       Member("DENTAL_PROFESSIONALS", "Dental professionals"),
       Member("MENTAL_HEALTH_PROVIDERS", "Psychologists, psychiatrists, and psychotherapists"),
       Member("ELDERLY_CARE_PROVIDERS", "Elderly care homes and assisted living providers"),
       Member("SPECIALIZED_MEDICAL", "Functional medicine clinics and specialized healthcare providers"),
       Member("SMALL_MEDIUM_BUSINESSES", "Small and medium businesses"),
       Member("LARGE_ENTERPRISES", "Large enterprise companies and corporations"),
       Member("STARTUPS_ENTREPRENEURS", "Startups and entrepreneurs"),
       Member("BUSINESS_PROFESSIONALS", "Business analysts, consultants, and advisors"),
       Member("SOFTWARE_DEVELOPERS", "Software developers and tech companies"),
       Member("AI_ML_RESEARCHERS", "AI/ML researchers and data scientists"),
       Member("IT_PROFESSIONALS", "IT professionals and system administrators"),
       Member("STUDENTS_PRIMARY", "School students"),
       Member("STUDENTS_HIGHER", "College/University students"),
       Member("TEACHERS_EDUCATORS", "Teachers & educational professionals"),
       Member("EDUCATIONAL_INSTITUTIONS", "Educational institutions & schools"),
       Member("ONLINE_LEARNING", "Online learning platforms"),
       Member("TRAINING_ORGANIZATIONS", "Organizations providing employee training and workforce education"),
       Member("JOB_SEEKERS", "Job seekers"),
       Member("GOVERNMENT_AGENCIES", "Government agencies and public sector organizations"),
       Member("MUNICIPALITIES", "Municipalities and city governments"),
       Member("DEFENSE_FORCES", "Defense forces and military organizations"),
       Member("PUBLIC_SAFETY", "Law enforcement & security"),
       Member("EMERGENCY", "Emergency services"),
       Member("FINANCIAL_INSTITUTIONS", "Banks & financial institutions"),
       Member("INSURANCE", "Insurance companies"),
       Member("FINTECH_COMPANIES", "FinTech companies & payment processors"),
       Member("LEGAL_PROFESSIONALS", "Law firms & legal professionals"),
       Member("CONSTRUCTION_COMPANIES", "Construction companies, contractors, and related sectors"),
       Member("ARCHITECTS_ENGINEERS", "Architects, engineers, and building designers"),
       Member("REAL_ESTATE_PROFESSIONALS", "Real estate agents, property managers, and investors"),
       Member("PROPERTY_OWNERS", "Property owners, landlords, and facility managers"),
       Member("MANUFACTURING_COMPANIES", "Manufacturing companies and industrial producers"),
       Member("AUTOMOTIVE_COMPANIES", "Automotive manufacturers and car dealerships"),
       Member("MACHINE_PARTS_VENDORS", "Machine parts vendors and equipment suppliers"),
       Member("LOGISTICS_COMPANIES", "Logistics companies and transportation operators"),
       Member("RETAILERS_ECOMMERCE", "Retail companies and e-commerce platforms"),
       Member("FOOD_BRANDS_PRODUCERS", "Food brands, producers, and farmers"),
       Member("CUSTOMER_SERVICE", "Customer service and support teams"),
       Member("CONTENT_CREATORS", "Content creators and digital artists"),
       Member("MEDIA_ENTERTAINMENT", "Media companies, streaming services, and entertainment industry"),
       Member("MUSIC_INDUSTRY", "Music schools, teachers, and music professionals"),
       Member("ADVERTISING_MARKETING", "Advertising agencies and marketing firms"),
       Member("HOSPITALITY_VENUES", "Hospitality industry, venues, and event management"),
       Member("TRAVEL_TOURISM", "Travel agencies and tourism providers"),
       Member("SHOPPING_ENTERTAINMENT", "Shopping centers, sports arenas, and entertainment venues"),
       Member("ENERGY_UTILITIES", "Energy companies and utility providers"),
       Member("ENVIRONMENTAL_ORGANIZATIONS", "Environmental and sustainability organizations"),
       Member("COMPLIANCE_ORGANIZATIONS", "Organizations needing CSRD/ESRS compliance"),
       Member("RESEARCH_INSTITUTIONS", "Research institutions, think tanks, and inventors"),
       Member("PHARMACEUTICAL_BIOTECH", "Pharmaceutical and biotech companies"),
       Member("EU_FUNDING_SEEKERS", "Organizations seeking EU funding and grants"),
       Member("AGRICULTURE_FOOD", "Agriculture, food industry, and farmers"),
       Member("IMMIGRATION_SERVICES", "Immigration authorities, migrants, and employers"),
       Member("RECRUITING_HR", "Recruiters, HR departments, and employment services"),
       Member("FITNESS_WELLNESS", "Fitness trainers and wellness coaches"),
       Member("GENERAL_CONSUMERS", "General consumers and public users"),
       Member("SENIOR_EXECUTIVES", "Senior executives and C-level leaders"),
       Member("KNOWLEDGE_WORKERS", "Knowledge workers and professionals"),
       Member("SPORTS", "Sport professionals"),
       Member("GAMING", "Gaming companies, game programmers"),
       Member("OTHER", "Other target groups not specified above") }

\* models.py:342-359
DataType ==
    {
       Member("TEXT_DATA", "Text data"),
       Member("IMAGE_DATA", "Image data"),
       Member("VIDEO_DATA", "Video data"),
       Member("AUDIO_DATA", "Audio and speech data"),
       Member("TABULAR_DATA", "Tabular and structured data"),
       Member("ELECTRONIC_HEALTH_RECORDS", "Electronic health records and medical data"),
       Member("GEOSPATIAL_DATA", "Geospatial and location data"),
       Member("SENSOR_DATA", "Sensor signals and IoT data"),
       Member("FINANCIAL_DATA", "Financial and business data"),
       Member("GENOMICS_DATA", "Genomics and biological data"),
       Member("ENGINEERING_DATA", "Engineering drawings and technical data"),
       Member("OTHER", "Other data types") }
-----------------------------------------------------------------------------
(* Normalisation, main.py:123-167                                          *)

\* normalize_inner without the elif branch: other values stay as they are
normalize_inner_unconverted(v) ==
    IF v.k = "str" THEN IList(<<v.s>>) ELSE v

\* main.py:140-145, 150-155, 160-165: the inner value after the branch
normalize_inner(v) ==
    IF v.k = "str" THEN IList(<<v.s>>)
    ELSE IF v.k # "list" THEN IList(<<pystr(v)>>)
    ELSE v

\* main.py:138-139, 148-149, 158-159: the nested value after the block
normalize_nested(v) ==
    IF v.k = "dict" /\ v.d.k # "absent"
    THEN ODict(normalize_inner(v.d))
    ELSE v

\* main.py:128: the condition needs .strip() of a truthy value that is no str
name_raises(m) ==
    Truthy(m["company_name"]) /\ m["company_name"].k # "str"

\* name_blank without the .strip() test
name_blank_nostrip(m) == ~Truthy(m["company_name"])

\* main.py:128
name_blank(m) ==
    \/ ~Truthy(m["company_name"])
    \/ strip(m["company_name"].s) = <<>>

\* is_none for a lookup that tells a missing key from a None value
is_none_value_only(v) == v.k = "none"

\* dict.get(key) is None
is_none(v) == v.k \in {"absent", "none"}

\* The three nested mappings are shared between the shallow copy and the
\* caller's mapping (main.py:125), so both see the in-place updates.
nested_updates(m) ==
    [m EXCEPT !["fair_services_sought"] = normalize_nested(@),
              !["target_market"] = normalize_nested(@),
              !["data_requirements"] = normalize_nested(@)]

\* clean_extracted_data storing a kept company name without its surrounding
\* whitespace
clean_extracted_data_strips(extracted_data, fallback_company_name) ==
    IF name_raises(extracted_data)
    THEN [raised |-> TRUE, cleaned |-> extracted_data,
          input |-> extracted_data]
    ELSE
      LET c1 == IF name_blank(extracted_data)
                THEN [extracted_data EXCEPT
                        !["company_name"] = OStr(fallback_company_name)]
                ELSE [extracted_data EXCEPT
                        !["company_name"] = OStr(strip(@.s))]
          c2 == IF is_none(c1["consultation_date"])
                THEN [c1 EXCEPT !["consultation_date"] = OStr(NA)] ELSE c1
          c3 == IF is_none(c2["country"])
                THEN [c2 EXCEPT !["country"] = OStr(NA)] ELSE c2
      IN  [raised |-> FALSE, cleaned |-> nested_updates(c3),
           input |-> nested_updates(extracted_data)]

\* main.py:123-167.  raised: an exception left the call; cleaned: the
\* returned mapping; input: the caller's mapping after the call.
clean_extracted_data(extracted_data, fallback_company_name) ==
    IF name_raises(extracted_data)
    THEN [raised |-> TRUE, cleaned |-> extracted_data,
          input |-> extracted_data]
    ELSE
      LET c1 == IF name_blank(extracted_data)
                THEN [extracted_data EXCEPT
                        !["company_name"] = OStr(fallback_company_name)]
                ELSE extracted_data
          c2 == IF is_none(c1["consultation_date"])
                THEN [c1 EXCEPT !["consultation_date"] = OStr(NA)] ELSE c1
          c3 == IF is_none(c2["country"])
                THEN [c2 EXCEPT !["country"] = OStr(NA)] ELSE c2
      IN  [raised |-> FALSE, cleaned |-> nested_updates(c3),
           input |-> nested_updates(extracted_data)]

-----------------------------------------------------------------------------
(* Record construction, models.py:397-465                                  *)

\* s is the display value of a member of E
IsValue(E, s) == \E e \in E : e.value = s

NoMember == [name |-> "", value |-> <<>>]

\* E(s): the member with display value s; a string that is no display
\* value has no member and stands for itself
ToMember(E, s) ==
    IF IsValue(E, s) THEN CHOOSE e \in E : e.value = s
    ELSE [name |-> "", value |-> s]

\* models.py:127-142: the value handed to the List[Services] check
validate_services(v) ==
    IF v.k = "str" THEN <<v>>
    ELSE IF v.k = "list" THEN [j \in 1..Len(v.l) |-> IStr(v.l[j])]
    ELSE IF Truthy(v) THEN <<v>> ELSE <<>>

\* models.py:329-340
validate_target_group(v) ==
    IF v.k = "str" THEN <<v>>
    ELSE IF v.k = "list" THEN [j \in 1..Len(v.l) |-> IStr(v.l[j])]
    ELSE IF Truthy(v) THEN <<v>> ELSE <<>>

\* models.py:382-393
validate_data_type(v) ==
    IF v.k = "str" THEN <<v>>
    ELSE IF v.k = "list" THEN [j \in 1..Len(v.l) |-> IStr(v.l[j])]
    ELSE IF Truthy(v) THEN <<v>> ELSE <<>>

\* a str field: only a str is accepted, the key is required
str_ok(v) == v.k = "str"

\* enum_ok without the membership test: any str passes
enum_ok_any_str(E, v) == v.k = "str"

\* an Enum field: the value of one of the members
enum_ok(E, v) == v.k = "str" /\ IsValue(E, v.s)

\* List[E] after the before-validator
list_ok(E, lst) == \A j \in 1..Len(lst) : enum_ok(E, lst[j])

\* a nested model with one Enum field
single_ok(E, v) == v.k = "dict" /\ enum_ok(E, v.d)

\* a nested model with one List[Enum] field
multi_ok(E, v, lst) == v.k = "dict" /\ v.d.k # "absent" /\ list_ok(E, lst)

members(E, lst) == [j \in 1..Len(lst) |-> ToMember(E, lst[j].s)]

NoRecord ==
    [company_name |-> <<>>, country |-> <<>>, consultation_date |-> <<>>,
     experts |-> <<>>, consultation_type |-> NoMember,
     domain_info |-> [domain |-> NoMember],
     ai_field_info |-> [ai_field |-> NoMember],
     intended_solution |-> <<>>, ai_maturity_level |-> NoMember,
     technical_expertise |-> NoMember, company_type |-> NoMember,
     target_market |-> [target_group |-> <<>>],
     data_requirements |-> [data_type |-> <<>>],
     fair_services_sought |-> [services |-> <<>>],
     recommendations |-> <<>>]

\* models.py:397-465: CompanyInfo(**kw).  ok = FALSE is a ValidationError.
CompanyInfo(kw) ==
    LET tg == validate_target_group(kw["target_market"].d)
        dt == validate_data_type(kw["data_requirements"].d)
        sv == validate_services(kw["fair_services_sought"].d)
        ok == /\ str_ok(kw["company_name"])
              /\ str_ok(kw["country"])
              /\ str_ok(kw["consultation_date"])
              /\ str_ok(kw["experts"])
              /\ enum_ok(ConsultationType, kw["consultation_type"])
              /\ single_ok(Domain, kw["domain_info"])
              /\ single_ok(AIField, kw["ai_field_info"])
              /\ str_ok(kw["intended_solution"])
              /\ enum_ok(MaturityLevel, kw["ai_maturity_level"])
              /\ enum_ok(MaturityLevel, kw["technical_expertise"])
              /\ enum_ok(CompanyType, kw["company_type"])
              /\ multi_ok(TargetGroup, kw["target_market"], tg)
              /\ multi_ok(DataType, kw["data_requirements"], dt)
              /\ multi_ok(Services, kw["fair_services_sought"], sv)
              /\ str_ok(kw["recommendations"])
    IN  IF ~ok THEN [ok |-> FALSE, rec |-> NoRecord]
        ELSE [ok |-> TRUE,
              rec |->
                [company_name |-> kw["company_name"].s,
                 country |-> kw["country"].s,
                 consultation_date |-> kw["consultation_date"].s,
                 experts |-> kw["experts"].s,
                 consultation_type |->
                     ToMember(ConsultationType, kw["consultation_type"].s),
                 domain_info |->
                     [domain |-> ToMember(Domain, kw["domain_info"].d.s)],
                 ai_field_info |->
                     [ai_field |-> ToMember(AIField, kw["ai_field_info"].d.s)],
                 intended_solution |-> kw["intended_solution"].s,
                 ai_maturity_level |->
                     ToMember(MaturityLevel, kw["ai_maturity_level"].s),
                 technical_expertise |->
                     ToMember(MaturityLevel, kw["technical_expertise"].s),
                 company_type |-> ToMember(CompanyType, kw["company_type"].s),
                 target_market |-> [target_group |-> members(TargetGroup, tg)],
                 data_requirements |-> [data_type |-> members(DataType, dt)],
                 fair_services_sought |-> [services |-> members(Services, sv)],
                 recommendations |-> kw["recommendations"].s]]

-----------------------------------------------------------------------------
(* Inputs: what the remote service can answer                              *)

Base ==
    [company_name |-> OStr(<<"Acme">>),
     country |-> OStr(<<"Finland">>),
     consultation_date |-> OStr(<<"15-03-2024">>),
     experts |-> OStr(<<"Alice", ",", " ", "Bob">>),
     consultation_type |-> OStr(<<"Regular">>),
     domain_info |-> ODict(IStr(<<"Finance">>)),
     ai_field_info |-> ODict(IStr(<<"Generative AI">>)),
     intended_solution |-> OStr(<<"chatbot">>),
     ai_maturity_level |-> OStr(<<"Low">>),
     technical_expertise |-> OStr(<<"High">>),
     company_type |-> OStr(<<"Established company">>),
     target_market |-> ODict(IList(<<<<"Job seekers">>>>)),
     data_requirements |-> ODict(IList(<<<<"Text data">>>>)),
     fair_services_sought |-> ODict(IList(<<<<"Technical advice">>>>)),
     recommendations |-> OStr(<<"pilot">>)]

NoMapping == [key \in Keys |-> OAbsent]

\* values met under company_name
NameValues ==
    {OAbsent, ONone, OStr(<<>>), OStr(<<" ", "\t">>), OStr(<<"Initech">>),
     OStr(<<" ", "Initech", " ">>), OInt(0), OInt(7), OList(<<>>),
     OList(<<<<"Initech">>>>)}

NullableValues(s) == {OAbsent, ONone, OStr(s)}

\* inner values met under the list key of a multi-choice mapping; a and b
\* are two display values of its enumeration
InnerValues(a, b) ==
    {IAbsent, INone, IInt(0), IInt(12), IStr(a), IStr(<<"Bogus">>),
     IList(<<>>), IList(<<a, b>>), IList(<<b, a>>), IList(<<a, <<"Bogus">>>>)}

NestedValues(a, b) ==
    {OAbsent, ONone, OStr(a)} \cup {ODict(v) : v \in InnerValues(a, b)}

ServicesValues ==
    NestedValues(<<"PoC development">>, <<"Data analysis">>)
TargetValues ==
    NestedValues(<<"Startups and entrepreneurs">>, <<"Job seekers">>)
DataValues ==
    NestedValues(<<"Image data">>, <<"Audio and speech data">>)

\* mappings the remote service can send
DictInputs ==
    {[Base EXCEPT !["company_name"] = n, !["country"] = c,
                  !["consultation_date"] = d] :
        n \in NameValues, c \in NullableValues(<<"Finland">>),
        d \in NullableValues(<<"15-03-2024">>)}
    \cup {[Base EXCEPT !["country"] = c, !["consultation_date"] = d] :
            c \in {OInt(7), OStr(<<>>)}, d \in {OInt(0), OStr(<<>>)}}
    \cup {[Base EXCEPT !["fair_services_sought"] = s, !["target_market"] = t,
                       !["data_requirements"] = d] :
            s \in ServicesValues,
            t \in {ODict(v) : v \in {IStr(<<"Job seekers">>), IList(<<>>),
                                      INone, IStr(<<"JOB_SEEKERS">>)}},
            d \in {ODict(v) : v \in {IStr(<<"Image data">>), IList(<<>>),
                                      IInt(12), IList(<<NA>>)}}}
    \cup {[Base EXCEPT !["target_market"] = v] : v \in TargetValues}
    \cup {[Base EXCEPT !["data_requirements"] = v] : v \in DataValues}
    \cup {[Base EXCEPT !["consultation_type"] = v] :
            v \in {OStr(NA), OStr(<<"REGULAR">>), OStr(<<"Pop-up">>), ONone}}
    \cup {[Base EXCEPT !["domain_info"] = v] :
            v \in {ODict(IStr(<<"Gardening">>)), ODict(IStr(<<"Other">>)),
                   OStr(<<"Finance">>)}}
    \cup {[Base EXCEPT !["ai_field_info"] = v] :
            v \in {ODict(IStr(<<"Other">>)), ODict(IStr(<<"Robotics">>)),
                   ODict(IAbsent)}}
    \cup {[Base EXCEPT !["ai_maturity_level"] = v,
                       !["technical_expertise"] = w] :
            v \in {OStr(<<"Moderate">>), OStr(<<"Expert">>), OStr(NA)},
            w \in {OStr(<<"Low">>), OStr(<<"LOW">>)}}
    \cup {[Base EXCEPT !["company_type"] = v] :
            v \in {OStr(<<"Startup">>), OStr(<<"Scaleup">>),
                   OStr(<<"STARTUP">>)}}
    \cup {[Base EXCEPT !["experts"] = v] : v \in {OInt(7), OAbsent}}
    \cup {NoMapping}

\* already typed records: instances of CompanyInfo (main.py:93)
TypedInputs ==
    {[CompanyInfo(Base).rec EXCEPT !.company_name = n] :
        n \in {<<>>, <<" ", " ">>, <<"Hooli">>, <<" ", "Hooli">>}}

ER(kind, m, rec) == [kind |-> kind, m |-> m, rec |-> rec]

\* results without usable data.  falsy: None or another falsy result;
\* nodata: a result without a data attribute; none: data is None; other:
\* data is a non-mapping without a company_name attribute
Unusable ==
    {ER(k, NoMapping, NoRecord) : k \in {"falsy", "nodata", "none", "other"}}

\* what agent.extract can return
ExtractionResults ==
    Unusable
    \cup {ER("dict", m, NoRecord) : m \in DictInputs}
    \cup {ER("typed", NoMapping, r) : r \in TypedInputs}

\* the answers met in a run over several files
RunResults ==
    Unusable
    \cup {ER("dict", m, NoRecord) :
            m \in {Base,
                   [Base EXCEPT !["company_name"] = OStr(<<" ", "\t">>),
                                !["country"] = ONone,
                                !["consultation_date"] = OAbsent],
                   [Base EXCEPT !["company_name"] = OInt(7)],
                   [Base EXCEPT !["consultation_type"] = OStr(NA)],
                   [Base EXCEPT !["target_market"] = ODict(IInt(12))],
                   [Base EXCEPT !["data_requirements"] = ODict(IList(<<>>))],
                   [Base EXCEPT !["fair_services_sought"] =
                        ODict(IStr(<<"PoC development">>))],
                   [Base EXCEPT !["fair_services_sought"] =
                        ODict(IList(<<<<"Data analysis">>,
                                      <<"PoC development">>>>))]}}
    \cup {ER("typed", NoMapping, r) :
            r \in {[CompanyInfo(Base).rec EXCEPT !.company_name = n] :
                      n \in {<<>>, <<"Hooli">>}}}

\* no result: the remote call raised
Raised == ER("raised", NoMapping, NoRecord)
Idle == ER("idle", NoMapping, NoRecord)

P(name) == <<"input", "/">> \o name

\* the directory listings glob can return (main.py:172): names ending in
\* .docx that do not start with a dot
Listings ==
    {<<P(<<"acme", ".", "docx">>), P(<<"a", ".", "b", ".", "docx">>),
       P(<<" ", ".", "docx">>), P(<<"x", " ", "y", ".", "docx">>)>>,
     <<P(<<"a", ".", "b", ".", "docx">>), P(<<" ", ".", "docx">>),
       P(<<"acme", ".", "docx">>), P(<<"x", " ", "y", ".", "docx">>)>>}

FileLists ==
    {SubSeq(l, 1, n) : l \in Listings,
                       n \in 0..(IF MaxFiles < 4 THEN MaxFiles ELSE 4)}

\* directories holding one file
SingleFiles == {<<l[n]>> : l \in Listings, n \in 1..4}

AgentName == "company-info-extractor"

Agent(id, name, schema) == [id |-> id, name |-> name, schema |-> schema]
NoAgent == Agent(0, "", "")

\* what the remote service can hold when the run starts
RemoteStates ==
    {<<>>,
     <<Agent(1, "Company-Info-Extractor", "CompanyInfo"),
       Agent(2, "company-info-extractor-v2", "CompanyInfo")>>,
     <<Agent(1, "invoice-extractor", "Invoice"),
       Agent(2, AgentName, "CompanyInfo"),
       Agent(3, AgentName, "CompanyInfo")>>}

-----------------------------------------------------------------------------
(* extract_company_info_llama, main.py:62-121                              *)

\* main.py:105-121: the keyword arguments of the default object
FallbackArgs ==
    [key \in Keys |-> IF key = "experts" THEN OStr(<<"Unknown">>)
                      ELSE OStr(NA)]

Returned(rec, fb) == [kind |-> "returned", rec |-> rec, fellBack |-> fb]
Propagated == [kind |-> "raised", rec |-> NoRecord, fellBack |-> TRUE]

\* main.py:100-121: the except block; the construction of the default
\* object is not itself guarded
except_block ==
    LET built == CompanyInfo(FallbackArgs)
    IN  IF built.ok THEN Returned(built.rec, TRUE) ELSE Propagated

\* backfill overwriting the name whatever the record holds
backfill_always(rec, company_name) ==
    [rec EXCEPT !.company_name = company_name]

\* main.py:94-96
backfill(rec, company_name) ==
    IF rec.company_name = <<>> \/ strip(rec.company_name) = <<>>
    THEN [rec EXCEPT !.company_name = company_name]
    ELSE rec

\* main.py:64-65, 81-121: from the answer of agent.extract to the outcome
after_extract(r, file_path) ==
    LET company_name == fallback_name(file_path)
    IN  CASE r.kind \in {"falsy", "nodata"} -> except_block
          [] r.kind = "dict" ->
               LET c == clean_extracted_data(r.m, company_name)
               IN  IF c.raised THEN except_block
                   ELSE LET built == CompanyInfo(c.cleaned)
                        IN  IF built.ok THEN Returned(built.rec, FALSE)
                            ELSE except_block
          [] r.kind = "typed" -> Returned(backfill(r.rec, company_name), FALSE)
          [] OTHER -> except_block

-----------------------------------------------------------------------------
(* save_to_excel, main.py:210-241                                          *)

\* value_of giving the symbolic name of the member
value_of_name(member) == <<member.name>>

\* main.py:220-229: member.value
value_of(member) == member.value

values(lst) == [j \in 1..Len(lst) |-> value_of(lst[j])]

Sep == <<";", " ">>

\* main.py:215-231: one dict of data, as its items in insertion order
to_row(result) ==
    << <<"Company Name", result.company_name>>,
       <<"Country", result.country>>,
       <<"Consultation Date", result.consultation_date>>,
       <<"Experts", result.experts>>,
       <<"Consultation Type", value_of(result.consultation_type)>>,
       <<"Domain", value_of(result.domain_info.domain)>>,
       <<"AI Field", value_of(result.ai_field_info.ai_field)>>,
       <<"Intended Solution", result.intended_solution>>,
       <<"AI Maturity Level", value_of(result.ai_maturity_level)>>,
       <<"Technical Expertise", value_of(result.technical_expertise)>>,
       <<"Company Type", value_of(result.company_type)>>,
       <<"Target Market",
         join(Sep, values(result.target_market.target_group))>>,
       <<"Data Requirements",
         join(Sep, values(result.data_requirements.data_type))>>,
       <<"FAIR Services Sought",
         join(Sep, values(result.fair_services_sought.services))>>,
       <<"Recommendations", result.recommendations>> >>

\* pd.DataFrame(data) for a list of dicts with the same keys: the columns
\* are the keys of the dicts, so an empty list gives no columns
DataFrame(data) ==
    [columns |-> IF data = <<>> THEN <<>>
                 ELSE [c \in 1..Len(data[1]) |-> data[1][c][1]],
     rows |-> [j \in 1..Len(data) |->
                 [c \in 1..Len(data[j]) |-> data[j][c][2]]]]

NoTable == [columns |-> <<>>, rows |-> <<>>]

\* main.py:214-235
build_table(rs) == DataFrame([j \in 1..Len(rs) |-> to_row(rs[j])])

-----------------------------------------------------------------------------
(* The run of main(), main.py:245-274                                      *)

Call(op, ok, name, schema) ==
    [op |-> op, ok |-> ok, name |-> name, schema |-> schema]

NoLast == [file |-> <<>>, r |-> Idle, kind |-> "idle", rec |-> NoRecord,
           fellBack |-> FALSE]

\* no stand-alone normalisation is under way
CleanIdle ==
    /\ cin = <<>>
    /\ cfallback = <<>>
    /\ cout = <<>>
    /\ cbuilt = <<>>
    /\ cagain = <<>>
    /\ cstage = "off"

Init ==
    /\ files \in FileLists
    /\ remoteAgents \in RemoteStates
    /\ answers = "RunResults"
    /\ pc = "main"
    /\ i = 0
    /\ agent = NoAgent
    /\ calls = <<>>
    /\ createCount = 0
    /\ last = NoLast
    /\ results = <<>>
    /\ table = NoTable
    /\ writes = 0
    /\ saved = FALSE
    /\ listFailed = FALSE
    /\ listCount = 0
    /\ used = {}
    /\ crash = ""
    /\ CleanIdle

\* first_match comparing the names without regard to case
first_match_ignorecase(existing_agents) ==
    LET hits == {j \in 1..Len(existing_agents) :
                    existing_agents[j].name
                        \in {AgentName, "Company-Info-Extractor"}}
    IN  IF hits = {} THEN 0 ELSE CHOOSE j \in hits : \A h \in hits : j <= h

\* first_match never recognising a listed agent
first_match_none(existing_agents) == 0

\* main.py:46-47: the first listed agent with the name, 0 if there is none
first_match(existing_agents) ==
    LET hits == {j \in 1..Len(existing_agents) :
                    existing_agents[j].name = AgentName}
    IN  IF hits = {} THEN 0 ELSE CHOOSE j \in hits : \A h \in hits : j <= h

\* main.py:186-187 and the loop head of main.py:181: the call returned a
\* record or let an exception through
Finish(r, outcome) ==
    /\ last' = [file |-> files[i], r |-> r, kind |-> outcome.kind,
                rec |-> outcome.rec, fellBack |-> outcome.fellBack]
    /\ IF outcome.kind = "returned"
       THEN /\ results' = Append(results, outcome.rec)
            /\ i' = i + 1
            /\ pc' = IF i + 1 > Len(files) THEN "save" ELSE "list"
            /\ crash' = crash
       ELSE /\ results' = results
            /\ i' = i
            /\ pc' = "crashed"
            /\ crash' = "extract_company_info_llama"

\* main.py:250-265, 170-181
ProcessDocuments ==
    /\ pc = "main"
    /\ results' = <<>>
    /\ i' = 1
    /\ pc' = IF files = <<>> THEN "save" ELSE "list"
    /\ UNCHANGED <<files, answers, remoteAgents, agent, calls, createCount, last,
                   table, writes, crash>>
    /\ UNCHANGED cleanVars
    /\ UNCHANGED <<saved, listFailed, listCount, used>>

\* main.py:45-49: list_agents answers
ListAgentsReturns ==
    /\ pc = "list"
    /\ calls' = <<Call("list", TRUE, "", "")>>
    /\ LET j == first_match(remoteAgents)
       IN  IF j # 0
           THEN agent' = remoteAgents[j] /\ pc' = "extract"
           ELSE agent' = NoAgent /\ pc' = "create"
    /\ UNCHANGED <<files, answers, remoteAgents, i, createCount, last, results,
                   table, writes, crash>>
    /\ UNCHANGED cleanVars
    /\ used' = IF first_match(remoteAgents) # 0
               THEN used \cup {agent'.id} ELSE used
    /\ listCount' = listCount + 1
    /\ UNCHANGED <<saved, listFailed>>

\* ListAgentsRaises without the inner try: the error reaches the except
\* block of extract_company_info_llama
ListAgentsRaises_unguarded ==
    /\ pc = "list"
    /\ calls' = <<Call("list", FALSE, "", "")>>
    /\ Finish(Raised, except_block)
    /\ UNCHANGED <<files, answers, remoteAgents, agent, createCount, table,
                   writes>>
    /\ UNCHANGED cleanVars
    /\ listFailed' = TRUE
    /\ listCount' = listCount + 1
    /\ UNCHANGED <<saved, used>>

\* main.py:45, 50-52: list_agents raises, the error is printed
ListAgentsRaises ==
    /\ pc = "list"
    /\ calls' = <<Call("list", FALSE, "", "")>>
    /\ agent' = NoAgent
    /\ pc' = "create"
    /\ UNCHANGED <<files, answers, remoteAgents, i, createCount, last, results,
                   table, writes, crash>>
    /\ UNCHANGED cleanVars
    /\ listFailed' = TRUE
    /\ listCount' = listCount + 1
    /\ UNCHANGED <<saved, used>>

\* main.py:55-59: create_agent answers
CreateAgentReturns ==
    /\ pc = "create"
    /\ LET created == Agent(Len(remoteAgents) + 1, AgentName, "CompanyInfo")
       IN  /\ remoteAgents' = Append(remoteAgents, created)
           /\ agent' = created
    /\ calls' = Append(calls, Call("create", TRUE, AgentName, "CompanyInfo"))
    /\ createCount' = createCount + 1
    /\ pc' = "extract"
    /\ UNCHANGED <<files, answers, i, last, results, table, writes, crash>>
    /\ UNCHANGED cleanVars
    /\ used' = used \cup {agent'.id}
    /\ UNCHANGED <<saved, listFailed, listCount>>

\* CreateAgentRaises with one more attempt at the creation for the same file
CreateAgentRaises_retry ==
    /\ pc = "create"
    /\ Len(calls) < 3
    /\ calls' = Append(calls, Call("create", FALSE, AgentName, "CompanyInfo"))
    /\ createCount' = createCount + 1
    /\ UNCHANGED <<pc, i, last, results, crash>>
    /\ UNCHANGED <<files, answers, remoteAgents, agent, table, writes>>
    /\ UNCHANGED cleanVars
    /\ UNCHANGED <<saved, listFailed, listCount, used>>

\* main.py:55, 72, 100: create_agent raises inside the try block
CreateAgentRaises ==
    /\ pc = "create"
    /\ calls' = Append(calls, Call("create", FALSE, AgentName, "CompanyInfo"))
    /\ createCount' = createCount + 1
    /\ Finish(Raised, except_block)
    /\ UNCHANGED <<files, answers, remoteAgents, agent, table, writes>>
    /\ UNCHANGED cleanVars
    /\ UNCHANGED <<saved, listFailed, listCount, used>>

\* the results agent.extract can return in this run
Offered ==
    IF answers = "ExtractionResults" THEN ExtractionResults ELSE RunResults

\* main.py:75-98: agent.extract answers
ExtractReturns ==
    /\ pc = "extract"
    /\ \E r \in Offered :
          Finish(r, after_extract(r, files[i]))
    /\ calls' = Append(calls, Call("extract", TRUE, "", ""))
    /\ UNCHANGED <<files, answers, remoteAgents, agent, createCount, table, writes>>
    /\ UNCHANGED cleanVars
    /\ UNCHANGED <<saved, listFailed, listCount, used>>

\* main.py:75, 100: agent.extract raises
ExtractRaises ==
    /\ pc = "extract"
    /\ Finish(Raised, except_block)
    /\ calls' = Append(calls, Call("extract", FALSE, "", ""))
    /\ UNCHANGED <<files, answers, remoteAgents, agent, createCount, table, writes>>
    /\ UNCHANGED cleanVars
    /\ UNCHANGED <<saved, listFailed, listCount, used>>

\* main.py:269, 210-241: the table is built and written
SaveToExcel ==
    /\ pc = "save"
    /\ table' = build_table(results)
    /\ writes' = writes + 1
    /\ pc' = "done"
    /\ UNCHANGED <<files, answers, remoteAgents, i, agent, calls, createCount, last,
                   results, crash>>
    /\ UNCHANGED cleanVars
    /\ saved' = TRUE
    /\ UNCHANGED <<listFailed, listCount, used>>

\* SaveToExcelFails with the error caught and reported: main goes on to
\* its closing messages
SaveToExcelFails_caught ==
    /\ pc = "save"
    /\ table' = build_table(results)
    /\ writes' = writes + 1
    /\ pc' = "done"
    /\ UNCHANGED <<files, answers, remoteAgents, i, agent, calls, createCount,
                   last, results, crash>>
    /\ UNCHANGED cleanVars
    /\ UNCHANGED <<saved, listFailed, listCount, used>>

\* main.py:238: to_excel raises, nothing catches it
SaveToExcelFails ==
    /\ pc = "save"
    /\ table' = build_table(results)
    /\ writes' = writes + 1
    /\ pc' = "crashed"
    /\ crash' = "save_to_excel"
    /\ UNCHANGED <<files, answers, remoteAgents, i, agent, calls, createCount, last,
                   results>>
    /\ UNCHANGED cleanVars
    /\ UNCHANGED <<saved, listFailed, listCount, used>>

Next ==
    \/ ProcessDocuments
    \/ ListAgentsReturns
    \/ ListAgentsRaises
    \/ CreateAgentReturns
    \/ CreateAgentRaises
    \/ ExtractReturns
    \/ ExtractRaises
    \/ SaveToExcel
    \/ SaveToExcelFails

Spec == Init /\ [][Next]_vars

-----------------------------------------------------------------------------
(* One call of extract_company_info_llama over everything the remote       *)
(* service can answer: a run over a directory with one file                *)

InitExtract ==
    /\ files \in SingleFiles
    /\ remoteAgents \in RemoteStates
    /\ answers = "ExtractionResults"
    /\ pc = "main"
    /\ i = 0
    /\ agent = NoAgent
    /\ calls = <<>>
    /\ createCount = 0
    /\ last = NoLast
    /\ results = <<>>
    /\ table = NoTable
    /\ writes = 0
    /\ saved = FALSE
    /\ listFailed = FALSE
    /\ listCount = 0
    /\ used = {}
    /\ crash = ""
    /\ CleanIdle

SpecExtract == InitExtract /\ [][Next]_vars

-----------------------------------------------------------------------------
(* clean_extracted_data on its own, followed by the record construction    *)

CleanInputs ==
    {[Base EXCEPT !["company_name"] = n, !["country"] = cd[1],
                  !["consultation_date"] = cd[2],
                  !["fair_services_sought"] = s, !["target_market"] = t,
                  !["data_requirements"] = d] :
        n \in NameValues,
        cd \in {<<ONone, OAbsent>>, <<OAbsent, OStr(<<"15-03-2024">>)>>,
                <<OStr(<<"Finland">>), ONone>>},
        s \in ServicesValues,
        t \in {OAbsent, ODict(IStr(<<"Job seekers">>)), ODict(IList(<<>>)),
               ODict(INone), ODict(IAbsent)},
        d \in {OStr(<<"Image data">>), ODict(IStr(<<"Image data">>)),
               ODict(IInt(12)), ODict(IInt(0)),
               ODict(IList(<<<<"Text data">>, <<"Image data">>>>))}}

FallbackNames == {fallback_name(l[n]) : l \in Listings, n \in 1..2}

InitClean ==
    /\ files = <<>>
    /\ remoteAgents = <<>>
    /\ answers = ""
    /\ pc = "off"
    /\ i = 0
    /\ agent = NoAgent
    /\ calls = <<>>
    /\ createCount = 0
    /\ last = NoLast
    /\ results = <<>>
    /\ table = NoTable
    /\ writes = 0
    /\ saved = FALSE
    /\ listFailed = FALSE
    /\ listCount = 0
    /\ used = {}
    /\ crash = ""
    /\ cin \in CleanInputs
    /\ cfallback \in FallbackNames
    /\ cout = [raised |-> FALSE, cleaned |-> NoMapping, input |-> NoMapping]
    /\ cbuilt = [ok |-> FALSE, rec |-> NoRecord]
    /\ cagain = [raised |-> FALSE, cleaned |-> NoMapping, input |-> NoMapping]
    /\ cstage = "ready"

\* main.py:87: the call.  cin keeps the mapping as it was handed over;
\* cout.input is the caller's mapping once the call is over.
CleanCall ==
    /\ cstage = "ready"
    /\ cout' = clean_extracted_data(cin, cfallback)
    /\ cstage' = IF cout'.raised THEN "raised" ELSE "cleaned"
    /\ UNCHANGED <<cin, cfallback, cbuilt, cagain>>
    /\ UNCHANGED runVars

\* main.py:90
Construct ==
    /\ cstage = "cleaned"
    /\ cbuilt' = CompanyInfo(cout.cleaned)
    /\ cstage' = IF cbuilt'.ok THEN "built" ELSE "invalid"
    /\ UNCHANGED <<cin, cfallback, cout, cagain>>
    /\ UNCHANGED runVars

\* main.py:123-167 called on the mapping an earlier call returned, with the
\* same fallback name
CleanAgain ==
    /\ cstage = "cleaned"
    /\ cagain' = clean_extracted_data(cout.cleaned, cfallback)
    /\ cstage' = "again"
    /\ UNCHANGED <<cin, cfallback, cout, cbuilt>>
    /\ UNCHANGED runVars

NextClean == CleanCall \/ Construct \/ CleanAgain

SpecClean == InitClean /\ [][NextClean]_vars

-----------------------------------------------------------------------------
(* Properties                                                              *)

Range(s) == {s[j] : j \in 1..Len(s)}

AllBlank(s) == \A j \in 1..Len(s) : s[j] \in Whitespace

\* the latest call of extract_company_info_llama is over
CallOver == last.kind \in {"returned", "raised"}

\* the latest call got no usable data from agent.extract
ExtractFailed ==
    /\ CallOver
    /\ calls # <<>>
    /\ calls[Len(calls)].op = "extract"
    /\ last.r.kind \in {"raised", "falsy", "nodata", "none", "other"}

\* C1: extract_company_info_llama never raises: whatever the remote service
\* does, the call ends by returning a record.
C1_NeverRaises == last.kind # "raised"

\* C2: whenever agent.extract raises or gives no usable data, the call returns
\* the fallback record: every scalar "n/a", experts "Unknown", and each of the
\* three multi-choice lists the one-element list ["n/a"].
C2_FallbackRecord ==
    ExtractFailed =>
        /\ last.kind = "returned"
        /\ last.rec.company_name = NA
        /\ last.rec.country = NA
        /\ last.rec.consultation_date = NA
        /\ last.rec.experts = <<"Unknown">>
        /\ last.rec.intended_solution = NA
        /\ last.rec.recommendations = NA
        /\ last.rec.consultation_type.value = NA
        /\ last.rec.domain_info.domain.value = NA
        /\ last.rec.ai_field_info.ai_field.value = NA
        /\ last.rec.ai_maturity_level.value = NA
        /\ last.rec.technical_expertise.value = NA
        /\ last.rec.company_type.value = NA
        /\ values(last.rec.target_market.target_group) = <<NA>>
        /\ values(last.rec.data_requirements.data_type) = <<NA>>
        /\ values(last.rec.fair_services_sought.services) = <<NA>>

\* C3: an extraction failure on one file never leaves the loop of
\* process_documents: no exception of extract_company_info_llama ends the
\* run, and once the loop is over there is one record per input file.
C3_LoopSurvivesFailure ==
    /\ crash # "extract_company_info_llama"
    /\ pc \in {"save", "done"} => Len(results) = Len(files)

Columns ==
    <<"Company Name", "Country", "Consultation Date", "Experts",
      "Consultation Type", "Domain", "AI Field", "Intended Solution",
      "AI Maturity Level", "Technical Expertise", "Company Type",
      "Target Market", "Data Requirements", "FAIR Services Sought",
      "Recommendations">>

\* C4: for every N >= 0, the table save_to_excel builds from N records has
\* exactly N rows and the fixed 15 columns in their order, N = 0 included.
C4_TableShape ==
    writes > 0 =>
        /\ Len(table.rows) = Len(results)
        /\ table.columns = Columns

\* the company_name of the result of agent.extract is missing, empty or
\* whitespace-only
InputNameBlank ==
    \/ /\ last.r.kind = "dict"
       /\ \/ last.r.m["company_name"].k \in {"absent", "none"}
          \/ /\ last.r.m["company_name"].k = "str"
             /\ AllBlank(last.r.m["company_name"].s)
    \/ /\ last.r.kind = "typed"
       /\ AllBlank(last.r.rec.company_name)

\* the file name without its directory and without its last extension
Stem(path) ==
    LET name == SubSeq(path, 3, Len(path)) IN SubSeq(name, 1, Len(name) - 2)

\* C5: when the company_name of the extraction result is missing, empty or
\* whitespace-only, in a mapping or in a typed record, the returned record
\* carries the base name of the file without its extension; no returned
\* record has an empty company name.
C5_NameBackfilled ==
    last.kind = "returned" =>
        /\ InputNameBlank => last.rec.company_name = Stem(last.file)
        /\ last.rec.company_name # <<>>
        /\ results[Len(results)].company_name = last.rec.company_name

C5_Witness ==
    /\ last.kind = "returned"
    /\ last.r.kind = "dict"
    /\ last.r.m["company_name"] = OStr(<<" ", "\t">>)
    /\ last.rec.company_name = <<"a", ".", "b">>

\* valid mappings but for a null or missing country or date
NullVariants ==
    {[Base EXCEPT !["company_name"] = OStr(<<"Initech">>),
                  !["country"] = c, !["consultation_date"] = d] :
        c \in NullableValues(<<"Finland">>),
        d \in NullableValues(<<"15-03-2024">>)}

\* C6: when country or consultation_date of the mapping is null or missing,
\* a record results whose field is the string "n/a"; an otherwise valid
\* mapping is never turned down for such a field.
C6_NullsBecomeNA ==
    (CallOver /\ last.r.kind = "dict") =>
        /\ last.r.m \in NullVariants => last.kind = "returned"
        /\ last.kind = "returned" =>
            /\ last.r.m["country"].k \in {"absent", "none"}
                  => last.rec.country = NA
            /\ last.r.m["consultation_date"].k \in {"absent", "none"}
                  => last.rec.consultation_date = NA

C6_Witness ==
    /\ last.kind = "returned"
    /\ last.r.kind = "dict"
    /\ last.r.m \in NullVariants
    /\ last.r.m["country"] = OAbsent
    /\ last.r.m["consultation_date"] = ONone
    /\ last.rec.country = NA
    /\ last.rec.consultation_date = NA

\* C7: each of the three multi-choice lists of every record built from a
\* mapping is non-empty, whatever inner value the mapping supplied.
C7_ListsNonEmpty ==
    (last.kind = "returned" /\ last.r.kind = "dict") =>
        /\ last.rec.fair_services_sought.services # <<>>
        /\ last.rec.target_market.target_group # <<>>
        /\ last.rec.data_requirements.data_type # <<>>

\* str(v) of the inner values that are neither str nor list
ExpectedStr(v) ==
    CASE v = INone    -> <<"None">>
      [] v = IInt(0)  -> <<"0">>
      [] v = IInt(12) -> <<"12">>

\* the reference of C8 on one nested field
Reference(v) ==
    IF v.k = "dict" /\ v.d.k # "absent"
    THEN CASE v.d.k = "str"  -> ODict(IList(<<v.d.s>>))
           [] v.d.k = "list" -> v
           [] OTHER          -> ODict(IList(<<ExpectedStr(v.d)>>))
    ELSE v

\* C8: on each multi-choice nested field the mapping clean_extracted_data
\* returns has: ["X"] for an inner string "X", the same list for an inner
\* list, [str(v)] for any other inner value v, and the field unchanged when
\* it is absent, no mapping, or lacks its inner key.
C8_MatchesReference ==
    cstage \in {"cleaned", "built", "invalid"} =>
        \A key \in {"fair_services_sought", "target_market",
                    "data_requirements"} :
            cout.cleaned[key] = Reference(cin[key])

C8_Witness ==
    /\ cstage = "cleaned"
    /\ cin["data_requirements"] = ODict(IInt(12))
    /\ cout.cleaned["data_requirements"] = ODict(IList(<<<<"12">>>>))
    /\ cin["fair_services_sought"] = ODict(IStr(<<"PoC development">>))
    /\ cin["target_market"] = ODict(IAbsent)

InClosedSets(rec) ==
    /\ rec.consultation_type \in ConsultationType
    /\ rec.ai_maturity_level \in MaturityLevel
    /\ rec.technical_expertise \in MaturityLevel
    /\ rec.company_type \in CompanyType
    /\ rec.domain_info.domain \in Domain
    /\ rec.ai_field_info.ai_field \in AIField
    /\ Range(rec.target_market.target_group) \subseteq TargetGroup
    /\ Range(rec.data_requirements.data_type) \subseteq DataType
    /\ Range(rec.fair_services_sought.services) \subseteq Services

\* C9: every record extract_company_info_llama returns, and so every record
\* of the result collection, has each enumeration field and each element of
\* the multi-choice lists inside its closed set.
C9_EnumsClosed ==
    /\ last.kind = "returned" => InClosedSets(last.rec)
    /\ \A j \in 1..Len(results) : InClosedSets(results[j])

\* a record built from a mapping, its display values turned into members
C9_Witness ==
    /\ last.kind = "returned"
    /\ last.r.kind = "dict"
    /\ last.r.m["domain_info"] = ODict(IStr(<<"Other">>))
    /\ last.rec.domain_info.domain = Member("OTHER", "Other")
    /\ results = <<last.rec>>

\* setup_extraction_agent is over for the current file and its listing
\* succeeded
SetupListed == calls # <<>> /\ calls[1].ok /\ pc # "create"

CreateCalls == {j \in 1..Len(calls) : calls[j].op = "create"}

CreatedNow == \E j \in CreateCalls : calls[j].ok

\* the agents the listing of the current file returned
Listed ==
    IF CreatedNow THEN SubSeq(remoteAgents, 1, Len(remoteAgents) - 1)
    ELSE remoteAgents

NamedAgents == {j \in 1..Len(Listed) : Listed[j].name = AgentName}

\* C10: when the listing succeeds, setup_extraction_agent returns a listed
\* agent named exactly "company-info-extractor" without calling
\* create_agent if there is one, and otherwise calls create_agent exactly
\* once, with that name and the CompanyInfo schema, and returns the agent it
\* created.
C10_GetOrCreate ==
    SetupListed =>
        IF NamedAgents # {}
        THEN /\ CreateCalls = {}
             /\ \E j \in NamedAgents : agent = Listed[j]
        ELSE /\ Cardinality(CreateCalls) = 1
             /\ calls[2].op = "create"
             /\ calls[2].name = "company-info-extractor"
             /\ calls[2].schema = "CompanyInfo"
             /\ calls[2].ok =>
                  /\ agent = remoteAgents[Len(remoteAgents)]
                  /\ agent.name = "company-info-extractor"
                  /\ agent \notin Range(Listed)

C10_Witness ==
    /\ pc = "extract"
    /\ calls[1].ok
    /\ Len(calls) = 2
    /\ Len(Listed) = 2
    /\ agent.id = 3

\* the listing of the current file raised
ListingFailed == calls # <<>> /\ calls[1].op = "list" /\ ~calls[1].ok

\* C11: when list_agents raises, the error does not leave
\* setup_extraction_agent: the next call is create_agent, whose agent is
\* returned, also when an agent with the name already exists remotely.
C11_ListFailureCreates ==
    ListingFailed =>
        /\ Len(calls) = 1 => (pc = "create" /\ crash = "")
        /\ Len(calls) >= 2 =>
            /\ calls[2].op = "create"
            /\ calls[2].name = "company-info-extractor"
            /\ calls[2].ok =>
                 /\ agent = remoteAgents[Len(remoteAgents)]
                 /\ (Len(calls) = 2 => pc = "extract")

\* the listing failed, an agent of that name existed, another was created
C11_Witness ==
    /\ ListingFailed
    /\ pc = "extract"
    /\ Len(remoteAgents) = 4
    /\ agent.id = 4
    /\ remoteAgents[2].name = agent.name

\* C12: clean_extracted_data raises no exception for any input mapping,
\* whatever the types of its values, a non-string truthy company_name
\* included: every call returns a cleaned mapping.
C12_CleanNeverRaises == cstage # "raised"

\* C13: clean_extracted_data is pure: once the call is over, the caller's
\* mapping, its three nested mappings included, equals what was handed in.
C13_InputUnchanged ==
    cstage \in {"cleaned", "built", "invalid", "raised"} => cout.input = cin

RECURSIVE JoinedValues(_, _)
\* the display values of the first n elements, "; " between neighbours
JoinedValues(lst, n) ==
    IF n = 0 THEN <<>>
    ELSE IF n = 1 THEN lst[1].value
    ELSE JoinedValues(lst, n - 1) \o <<";", " ">> \o lst[n].value

\* row of the table for one record, as C14 describes it
RowAsClaimed(row, rec) ==
    /\ row[5] = rec.consultation_type.value
    /\ row[6] = rec.domain_info.domain.value
    /\ row[7] = rec.ai_field_info.ai_field.value
    /\ row[9] = rec.ai_maturity_level.value
    /\ row[10] = rec.technical_expertise.value
    /\ row[11] = rec.company_type.value
    /\ row[5] # <<rec.consultation_type.name>>
    /\ row[11] # <<rec.company_type.name>>
    /\ row[12] = JoinedValues(rec.target_market.target_group,
                              Len(rec.target_market.target_group))
    /\ row[13] = JoinedValues(rec.data_requirements.data_type,
                              Len(rec.data_requirements.data_type))
    /\ row[14] = JoinedValues(rec.fair_services_sought.services,
                              Len(rec.fair_services_sought.services))

\* C14: in the table of save_to_excel each multi-choice field is the display
\* values of its list joined with "; " in the order of the list (one element:
\* the value alone), and each single-choice enumeration field is the display
\* value of its member, not the member's symbolic name.
C14_RowRendering ==
    writes > 0 =>
        /\ Len(table.rows) = Len(results)
        /\ \A j \in 1..Len(results) : RowAsClaimed(table.rows[j], results[j])

\* a written table with a two-element list and a one-element list
C14_Witness ==
    /\ saved
    /\ Len(results) = 2
    /\ table.rows[1][14] = <<"Data analysis", ";", " ", "PoC development">>
    /\ table.rows[2][14] = <<"PoC development">>
    /\ table.rows[2][11] = <<"Established company">>

\* the run of main() is over
RunOver == pc \in {"done", "crashed"}

\* C15: in a run of main the output file is written exactly once, and only
\* after every input file has its record in the result collection.
C15_WrittenOnceAtEnd ==
    /\ writes <= 1
    /\ writes >= 1 => Len(results) = Len(files)
    /\ RunOver => writes = 1

\* no remote call is issued once the write has begun
NoCallAfterWrite ==
    [][writes >= 1 => (calls' = calls /\ remoteAgents' = remoteAgents
                        /\ createCount' = createCount)]_vars

\* the result collection only grows at its end
ResultsAppendOnly ==
    [][/\ Len(results') >= Len(results)
       /\ \A j \in 1..Len(results) : results'[j] = results[j]]_vars

\* C16: a failing write is not caught: it ends the run of main with the
\* exception of save_to_excel, nothing runs after it, and it happens only
\* when every input file has its record.
C16_ExportFailureFatal ==
    (writes >= 1 /\ ~saved) =>
        /\ pc = "crashed"
        /\ crash = "save_to_excel"
        /\ Len(results) = Len(files)
        /\ i = Len(files) + 1
        /\ ~ENABLED Next

C16_Witness ==
    /\ crash = "save_to_excel"
    /\ ~saved
    /\ Len(files) = 2
    /\ Len(results) = 2
    /\ Len(table.rows) = 2

\* the number of calls of one remote operation made for the current file
CallCount(op) == Cardinality({j \in 1..Len(calls) : calls[j].op = op})

\* C17: for each input file list_agents, create_agent and agent.extract are
\* each called at most once, in that order, no call is repeated after a
\* failure, and a failed creation or extraction is the last call for the file.
C17_NoRetries ==
    /\ \A op \in {"list", "create", "extract"} : CallCount(op) <= 1
    /\ \A j \in 1..Len(calls) : calls[j].op \in {"list", "create", "extract"}
    /\ \A j, k \in 1..Len(calls) :
          /\ (calls[j].op = "list" /\ calls[k].op # "list") => j < k
          /\ (calls[j].op = "create" /\ calls[k].op = "extract") => j < k
    /\ \A j \in 1..Len(calls) :
          (calls[j].op \in {"create", "extract"} /\ ~calls[j].ok) =>
              /\ j = Len(calls)
              /\ pc \notin {"create", "extract"}
    /\ pc = "create" => (CallCount("create") = 0 /\ CallCount("list") = 1)
    /\ pc = "extract" => (CallCount("extract") = 0 /\ CallCount("list") = 1)
    /\ pc = "list" => Len(results) = i - 1

C17_Witness ==
    /\ Len(calls) = 3
    /\ ~calls[1].ok
    /\ calls[2].op = "create" /\ calls[2].ok
    /\ calls[3].op = "extract" /\ ~calls[3].ok
    /\ i = 2

\* the latest answer of agent.extract carried an already typed record
TypedAnswer == CallOver /\ last.r.kind = "typed"

\* C18: when the data of the remote result is an already typed record,
\* extract_company_info_llama returns it with company_name replaced by the
\* base name of the file only if company_name is empty or whitespace-only;
\* otherwise company_name and every other field are returned unchanged.
C18_TypedPassThrough ==
    TypedAnswer =>
        /\ last.kind = "returned"
        /\ ~last.fellBack
        /\ AllBlank(last.r.rec.company_name) =>
              last.rec = [last.r.rec EXCEPT !.company_name = Stem(last.file)]
        /\ ~AllBlank(last.r.rec.company_name) => last.rec = last.r.rec

C18_Witness ==
    /\ TypedAnswer
    /\ last.r.rec.company_name = <<" ", "Hooli">>
    /\ last.rec.company_name = <<" ", "Hooli">>
    /\ last.file = P(<<"acme", ".", "docx">>)

C18_WitnessBlank ==
    /\ TypedAnswer
    /\ last.r.rec.company_name = <<" ", " ">>
    /\ last.rec.company_name = <<"a", ".", "b">>

\* the number of files whose processing has begun
Begun ==
    CASE pc = "main" -> 0
      [] pc = "list" -> i - 1
      [] pc \in {"create", "extract"} -> i
      [] pc = "crashed" /\ crash = "extract_company_info_llama" -> i
      [] OTHER -> Len(files)

\* C19: provisioning is repeated for every file; when every listing of the
\* run succeeds, every file resolves to the same remote agent and
\* create_agent is called at most once in the run, on the first file and
\* only if the agent was absent; a creation attempt for a later file follows
\* a failed listing for that file.
C19_OneAgentPerRun ==
    /\ pc # "list" => listCount = Begun
    /\ pc = "list" => listCount = i - 1
    /\ ~listFailed =>
          /\ Cardinality(used) <= 1
          /\ createCount <= 1
          /\ (createCount = 1 /\ Begun >= 2) => CreateCalls = {}
          /\ (CreateCalls # {} \/ pc = "create") => NamedAgents = {}
    /\ ((CreateCalls # {} \/ pc = "create") /\ Begun >= 2) => ~calls[1].ok

C19_Witness ==
    /\ pc = "save"
    /\ Len(results) = 2
    /\ ~listFailed
    /\ listCount = 2
    /\ createCount = 1
    /\ used = {1}
    /\ agent.id = 1

\* the keys clean_extracted_data may assign at the top level
AssignedKeys == {"company_name", "consultation_date", "country"}

\* the multi-choice fields, whose inner list key may be rewritten
MultiChoiceKeys == {"fair_services_sought", "target_market",
                    "data_requirements"}

\* the value under key is the same in the result as in the input, up to
\* the inner list key of a multi-choice mapping
SameOutside(key, before, after) ==
    IF key \in MultiChoiceKeys /\ before[key].k = "dict"
    THEN /\ after[key].k = "dict"
         /\ before[key].d.k = "absent" => after[key].d.k = "absent"
    ELSE after[key] = before[key]

\* C20: where clean_extracted_data returns, cleaning its result again with
\* the same fallback name returns the same mapping, and the first result
\* agrees with the input on every key other than company_name,
\* consultation_date, country and the inner list keys of the three
\* multi-choice fields; a non-blank company_name is kept untrimmed.
C20_CleanIdempotent ==
    /\ cstage = "again" =>
          /\ ~cagain.raised
          /\ cagain.cleaned = cout.cleaned
    /\ cstage \in {"cleaned", "again", "built", "invalid"} =>
          /\ \A key \in Keys \ AssignedKeys :
                SameOutside(key, cin, cout.cleaned)
          /\ (cin["company_name"].k = "str"
                /\ ~AllBlank(cin["company_name"].s)) =>
                cout.cleaned["company_name"] = cin["company_name"]

C20_Witness ==
    /\ cstage = "again"
    /\ cin["company_name"] = OStr(<<" ", "Initech", " ">>)
    /\ cout.cleaned["company_name"] = OStr(<<" ", "Initech", " ">>)
    /\ cin["data_requirements"] = ODict(IInt(12))
    /\ cagain.cleaned["data_requirements"] = ODict(IList(<<<<"12">>>>))
    /\ cin["country"] = ONone
    /\ cagain.cleaned["country"] = OStr(NA)

====
